---- MODULE Spec2Model ----
(***************************************************************************)
(* A model of the session bootstrap controller                             *)
(* (CodingAgentController.startCodeGeneration) and of the conversational   *)
(* turn processor (UserConversationProcessor.execute).                     *)
(*                                                                         *)
(* The specifications of the module: BootstrapSpec runs one HTTP request   *)
(* through the controller together with the agent's background             *)
(* initialization; TurnSpec runs one conversational turn together with the *)
(* inference engine that drives its callbacks; ToolLoopSpec is a turn with *)
(* a longer tool loop; SessionSpec runs several turns one after the other; *)
(* HistorySpec follows the histories of turns started on the previous      *)
(* return or on the same snapshot; UpdateSpec runs processProjectUpdates.  *)
(***************************************************************************)
EXTENDS Naturals, Sequences, FiniteSets

VARIABLES
    \* ---- bootstrap controller ----
    body,        \* what request.json() yields for this request (controller.ts:40)
    url,         \* the parsed request URL: [protocol, host]
    cpc,         \* position of the handler: the await it is suspended at
    quota,       \* state of the promise of enforceAppCreationRateLimit
    calls,       \* log of the calls the handler makes on its collaborators
    agentId,     \* the generated session id (NoId before generateId())
    written,     \* log of the chunks passed to writer.write, in order (111, 129, 135)
    readable,    \* the readable side: [enqueued, terminated] (49-58)
    response,    \* the HTTP response returned by the handler
    initState,   \* state of the promise returned by agentInstance.initialize (122)
    thenRan,     \* the reaction registered with agentPromise.then has run
    userConfigsRecord,  \* what getUserModelConfigs resolved to (76)
    inferenceContext,   \* the object built at 95-100
    contextArgs,        \* the contexts handed to collaborators, with the callee (106, 127)
    \* ---- conversational turn ----
    tpc,                       \* PENDING, STREAMING, COMPLETED, FALLBACK, THROWN
    userMessage,               \* inputs.userMessage
    pastMessages,              \* inputs.pastMessages
    messages,                  \* the local array `messages`
    extractedUserResponse,     \* accumulator of streamed text
    extractedEnhancedRequest,  \* turn-local slot written by queue_request
    aiConversationId,          \* the turn correlation id
    nextId,                    \* IdGenerator state: ids issued so far
    cbLog,                     \* log of conversationResponseCallback calls
    streamed,                  \* fragments the inference engine produced, in order
    toolCalls,                 \* tool executions of the inference loop, with results
    raised,                    \* the error thrown inside the try block, if any
    inferResult,               \* what executeInference resolved to, if it did
    outcome,                   \* what execute() returned or threw
    \* ---- the session that owns the processor ----
    updateLog,                 \* calls of processProjectUpdates, with what each returned
    pastTurns                  \* the turns of the session that ended earlier

ctxVars == <<userConfigsRecord, inferenceContext, contextArgs>>
ctrlVars == <<body, url, cpc, quota, calls, agentId, written, readable, response,
              initState, thenRan, ctxVars>>
turnVars == <<tpc, userMessage, pastMessages, messages, extractedUserResponse,
              extractedEnhancedRequest, aiConversationId, nextId, cbLog, streamed,
              toolCalls, raised, inferResult, outcome>>
sessionVars == <<updateLog, pastTurns>>
vars == <<ctrlVars, turnVars, sessionVars>>

----------------------------------------------------------------------------
(* Bounds of the model *)

\* how many blueprint fragments the agent relays during one initialization
MaxBlueprintChunks == 2

\* how many text fragments the inference engine streams in one turn
MaxFragments == 2

\* how many tool invocations the inference loop makes in one turn
MaxToolCalls == 1

\* how many new structured messages one inference call returns
MaxNewMessages == 2

\* a turn with a longer tool loop: how many tool executions, how many fragments
MaxLoopToolCalls == 2

MaxLoopFragments == 1

\* how many project updates are summarized
MaxUpdates == 2

\* a session of several turns: how many turns, and per turn how many
\* fragments and how many tool executions
MaxTurns == 2

MaxSessionFragments == 1

MaxSessionToolCalls == 1

\* how many turns are followed for their histories
MaxHistoryTurns == 3

----------------------------------------------------------------------------
(* Generic helpers *)

Count(s, x) == Cardinality({i \in 1..Len(s) : s[i] = x})

Positions(s, x) == {i \in 1..Len(s) : s[i] = x}

----------------------------------------------------------------------------
(* Bootstrap controller: values *)

Undefined == "<undefined>"

NoId == "<none>"

AgentIds == {"id1", "id2"}

Protocols == {"http:", "https:"}

Hosts == {"app.example"}

BlueprintChunks == {"bp1", "bp2"}

\* what `await request.json()` can produce: a rejection, or a JSON value
Bodies ==
    {[kind |-> "invalid"], [kind |-> "null"], [kind |-> "scalar"]}
    \cup {[kind |-> "object", query |-> q] : q \in {Undefined, "", "build a todo app"}}

\* the templates getTemplateForQuery can resolve to
TemplateDetails ==
    {[name |-> "vite-react", files |-> <<"src/App.tsx">>, deps |-> "d1"],
     [name |-> "next", files |-> <<"app/page.tsx", "package.json">>, deps |-> "d2"]}

NoResponse == [status |-> 0, kind |-> "none"]

\* BaseController.createErrorResponse(message, status): a JSON error body
createErrorResponse(status) == [status |-> status, kind |-> "json"]

\* BaseController.handleError: the structured 5xx response of the outer catch
handleError == createErrorResponse(500)

\* new Response(readable, {status: 200, headers: {...}})
StreamResponse ==
    [status |-> 200, kind |-> "stream",
     headers |-> [ContentType |-> "text/event-stream; charset=utf-8",
                  CacheControl |-> "no-cache, no-store, must-revalidate, no-transform",
                  Pragma |-> "no-cache",
                  Connection |-> "keep-alive"]]

\* user.id of the authenticated caller
UserId == "user-1"

\* the action keys of the user's model-config record
ActionKeys == {"blueprint", "conversationalResponse"}

\* a merged config: inherited from the defaults, or customized by the user
MergedConfigs ==
    {[name |-> "default-model", max_tokens |-> 4000, temperature |-> 1,
      reasoning_effort |-> "low", fallbackModel |-> "fallback-model",
      isUserOverride |-> FALSE],
     [name |-> "user-model", max_tokens |-> 8000, temperature |-> 0,
      reasoning_effort |-> "high", fallbackModel |-> "fallback-model",
      isUserOverride |-> TRUE]}

\* what getUserModelConfigs can resolve to
UserConfigRecords == [ActionKeys -> MergedConfigs]

NoRecord == <<>>

NoContext == [agentId |-> NoId]

\* the ModelConfig copied out of a merged config
ModelConfigOf(mergedConfig) ==
    [name |-> mergedConfig.name,
     max_tokens |-> mergedConfig.max_tokens,
     temperature |-> mergedConfig.temperature,
     reasoning_effort |-> mergedConfig.reasoning_effort,
     fallbackModel |-> mergedConfig.fallbackModel]

\* a variant that forwards every entry of the record
UserModelConfigs_All(record) ==
    [actionKey \in DOMAIN record |-> ModelConfigOf(record[actionKey])]

\* the Map filled by the loop over Object.entries(userConfigsRecord)
UserModelConfigs(record) ==
    [actionKey \in {k \in DOMAIN record : record[k].isUserOverride}
        |-> ModelConfigOf(record[actionKey])]

\* const inferenceContext = {...}
InferenceContext(record, id, userId) ==
    [userModelConfigs |-> UserModelConfigs(record),
     agentId |-> id,
     userId |-> userId,
     enableRealtimeCodeFix |-> TRUE]

\* the sentinel chunk: the string "terminate" (strings are tagged so that a
\* chunk is always a record)
Terminate == [str |-> "terminate"]

\* JavaScript truthiness of body.query
Falsy(q) == q \in {Undefined, ""}

\* `body.query`: reading a property of null throws a TypeError, any other
\* non-object value yields undefined
QueryThrows(b) == b.kind = "null"

QueryOf(b) == IF b.kind = "object" THEN b.query ELSE Undefined

----------------------------------------------------------------------------
(* Bootstrap controller: the duplex stream *)

EmptyReadable == [enqueued |-> <<>>, terminated |-> FALSE]

\* TextEncoder().encode(JSON.stringify(chunk) + '\n')
Encode(chunk) == <<"json", chunk, "\n">>

\* the transform() callback of the TransformStream, applied to one chunk; a
\* terminated stream has an errored writable side and takes no more chunks
Transform(r, chunk) ==
    IF r.terminated THEN r
    ELSE IF chunk = Terminate
         THEN [r EXCEPT !.terminated = TRUE]
         ELSE [r EXCEPT !.enqueued = Append(@, Encode(chunk))]

RECURSIVE TransformAll(_, _)
TransformAll(r, chunks) ==
    IF chunks = <<>> THEN r
    ELSE TransformAll(Transform(r, Head(chunks)), Tail(chunks))

\* writer.write(chunk) for each chunk of `chunks`, in order
WriteAll(chunks) ==
    /\ written' = written \o chunks
    /\ readable' = TransformAll(readable, chunks)
    /\ calls' = calls \o [i \in 1..Len(chunks) |-> "write"]

websocketUrl(u, id) ==
    <<IF u.protocol = "https:" THEN "wss:" ELSE "ws:", "//", u.host,
      "/api/agent/", id, "/ws">>

httpStatusUrl(u, id) == <<u.protocol, "//", u.host, "/api/agent/", id>>

\* the first event written to the stream
FirstEvent(u, id, td) ==
    [message |-> "Code generation started",
     agentId |-> id,
     websocketUrl |-> websocketUrl(u, id),
     httpStatusUrl |-> httpStatusUrl(u, id),
     template |-> [name |-> td.name, files |-> td.files]]

\* the event relayed by onBlueprintChunk
ChunkEvent(c) == [chunk |-> c]

IsProgress(ev) == "message" \in DOMAIN ev

IsChunk(ev) == "chunk" \in DOMAIN ev

----------------------------------------------------------------------------
(* Bootstrap controller: startCodeGeneration, one action per await *)

CtrlInit ==
    /\ body \in Bodies
    /\ url \in [protocol : Protocols, host : Hosts]
    /\ cpc = "json"
    /\ quota = "notcalled"
    /\ calls = <<>>
    /\ agentId = NoId
    /\ written = <<>>
    /\ readable = EmptyReadable
    /\ response = NoResponse
    /\ initState = "notstarted"
    /\ thenRan = FALSE
    /\ userConfigsRecord = NoRecord
    /\ inferenceContext = NoContext
    /\ contextArgs = <<>>

Return(r) ==
    /\ response' = r
    /\ cpc' = "done"

\* `await request.json()` settles.  A rejection returns 400.  Otherwise the
\* handler runs on, without suspending, through the query check, the
\* construction of the TransformStream and the call of the quota engine.
ParseBody ==
    /\ cpc = "json"
    /\ IF body.kind = "invalid"
       THEN /\ Return(createErrorResponse(400))
            /\ calls' = Append(calls, "json")
            /\ UNCHANGED quota
       ELSE IF QueryThrows(body)
       THEN /\ Return(handleError)
            /\ calls' = Append(calls, "json")
            /\ UNCHANGED quota
       ELSE IF Falsy(QueryOf(body))
       THEN /\ Return(createErrorResponse(400))
            /\ calls' = Append(calls, "json")
            /\ UNCHANGED quota
       ELSE /\ calls' = calls \o <<"json", "TransformStream", "getWriter",
                                    "enforceAppCreationRateLimit">>
            /\ quota' = "pending"
            /\ cpc' = "quota"
            /\ UNCHANGED response
    /\ UNCHANGED <<body, url, agentId, written, readable, initState, thenRan>>
    /\ UNCHANGED ctxVars
    /\ UNCHANGED turnVars
    /\ UNCHANGED sessionVars

\* a variant that has asked for the agent handle by the time the quota
\* engine's rejection is answered
QuotaRejects_AfterStub ==
    /\ cpc = "quota"
    /\ quota' = "rejected"
    /\ Return(createErrorResponse(429))
    /\ calls' = Append(calls, "getAgentStub")
    /\ UNCHANGED <<body, url, agentId, written, readable, initState, thenRan>>
    /\ UNCHANGED ctxVars
    /\ UNCHANGED turnVars
    /\ UNCHANGED sessionVars

\* a variant that has issued the session id by the time the quota engine's
\* rejection is answered
QuotaRejects_IdIssued ==
    /\ cpc = "quota"
    /\ quota' = "rejected"
    /\ Return(createErrorResponse(429))
    /\ calls' = Append(calls, "generateId")
    /\ \E id \in AgentIds : agentId' = id
    /\ UNCHANGED <<body, url, written, readable, initState, thenRan>>
    /\ UNCHANGED ctxVars
    /\ UNCHANGED turnVars
    /\ UNCHANGED sessionVars

\* a rejection of the quota engine is answered with 429, whatever was thrown
QuotaRejects ==
    /\ cpc = "quota"
    /\ quota' = "rejected"
    /\ \E thrown \in {"Error", "other"} :
          Return(createErrorResponse(429))
    /\ UNCHANGED <<body, url, calls, agentId, written, readable, initState, thenRan>>
    /\ UNCHANGED ctxVars
    /\ UNCHANGED turnVars
    /\ UNCHANGED sessionVars

\* the quota check passes: the session id is generated and the override
\* fetch and the agent-handle lookup are started together
QuotaPasses ==
    /\ cpc = "quota"
    /\ quota' = "passed"
    /\ \E id \in AgentIds : agentId' = id
    /\ calls' = calls \o <<"generateId", "getUserModelConfigs", "getAgentStub">>
    /\ cpc' = "all"
    /\ UNCHANGED <<body, url, written, readable, response, initState, thenRan>>
    /\ UNCHANGED ctxVars
    /\ UNCHANGED turnVars
    /\ UNCHANGED sessionVars

\* Promise.all rejects: the outer catch answers
AllRejects ==
    /\ cpc = "all"
    /\ Return(handleError)
    /\ UNCHANGED <<body, url, quota, calls, agentId, written, readable, initState, thenRan>>
    /\ UNCHANGED ctxVars
    /\ UNCHANGED turnVars
    /\ UNCHANGED sessionVars

\* Promise.all fulfils: the inference context is built and template
\* resolution is started
AllFulfils ==
    /\ cpc = "all"
    /\ \E record \in UserConfigRecords :
          LET ctx == InferenceContext(record, agentId, UserId) IN
            /\ userConfigsRecord' = record
            /\ inferenceContext' = ctx
            /\ contextArgs' = Append(contextArgs,
                                     [callee |-> "getTemplateForQuery", context |-> ctx])
    /\ calls' = Append(calls, "getTemplateForQuery")
    /\ cpc' = "template"
    /\ UNCHANGED <<body, url, quota, agentId, written, readable, response, initState, thenRan>>
    /\ UNCHANGED turnVars
    /\ UNCHANGED sessionVars

\* a variant that has written the first event by the time the rejection of
\* template resolution is answered
TemplateRejects_AfterWrite ==
    /\ cpc = "template"
    /\ Return(handleError)
    /\ \E td \in TemplateDetails :
          LET ev == FirstEvent(url, agentId, td) IN
            /\ written' = Append(written, ev)
            /\ readable' = Transform(readable, ev)
    /\ calls' = Append(calls, "write")
    /\ UNCHANGED <<body, url, quota, agentId, initState, thenRan>>
    /\ UNCHANGED ctxVars
    /\ UNCHANGED turnVars
    /\ UNCHANGED sessionVars

\* template resolution rejects: the outer catch answers
TemplateRejects ==
    /\ cpc = "template"
    /\ Return(handleError)
    /\ UNCHANGED <<body, url, quota, calls, agentId, written, readable, initState, thenRan>>
    /\ UNCHANGED ctxVars
    /\ UNCHANGED turnVars
    /\ UNCHANGED sessionVars

\* a variant that launches initialization before it writes the first event
LaunchCalls_InitFirst == <<"initialize", "write">>

\* what the handler does between the template's resolution and its return:
\* the first event is written, then initialize() is called
LaunchCalls == <<"write", "initialize">>

\* a variant that awaits initialize() and has no response while it is pending
ResponseAtLaunch_Awaited == NoResponse

\* what the handler returns right after it launched initialize()
ResponseAtLaunch == StreamResponse

\* Template resolution fulfils: the first event is written, initialize() is
\* called and its promise given a fulfilment reaction, and the streaming
\* response is returned.  A call of initialize() that throws synchronously
\* lands in the outer catch instead.
TemplateFulfils ==
    /\ cpc = "template"
    /\ \E td \in TemplateDetails :
          LET ev == FirstEvent(url, agentId, td) IN
            /\ written' = Append(written, ev)
            /\ readable' = Transform(readable, ev)
    /\ calls' = calls \o LaunchCalls
    /\ contextArgs' = Append(contextArgs,
                             [callee |-> "initialize", context |-> inferenceContext])
    /\ \E throws \in BOOLEAN :
          IF throws
          THEN /\ Return(handleError)
               /\ UNCHANGED initState
          ELSE /\ Return(ResponseAtLaunch)
               /\ initState' = "pending"
    /\ UNCHANGED <<userConfigsRecord, inferenceContext>>
    /\ UNCHANGED <<body, url, quota, agentId, thenRan>>
    /\ UNCHANGED turnVars
    /\ UNCHANGED sessionVars

\* the agent calls onBlueprintChunk while it initializes
AgentEmitChunk ==
    /\ initState = "pending"
    /\ Cardinality({i \in 1..Len(written) : IsChunk(written[i])}) < MaxBlueprintChunks
    /\ \E c \in BlueprintChunks : WriteAll(<<ChunkEvent(c)>>)
    /\ UNCHANGED <<body, url, quota, cpc, agentId, response, initState, thenRan>>
    /\ UNCHANGED ctxVars
    /\ UNCHANGED turnVars
    /\ UNCHANGED sessionVars

InitFulfils ==
    /\ initState = "pending"
    /\ initState' = "fulfilled"
    /\ UNCHANGED <<body, url, quota, cpc, calls, agentId, written, readable, response, thenRan>>
    /\ UNCHANGED ctxVars
    /\ UNCHANGED turnVars
    /\ UNCHANGED sessionVars

InitRejects ==
    /\ initState = "pending"
    /\ initState' = "rejected"
    /\ UNCHANGED <<body, url, quota, cpc, calls, agentId, written, readable, response, thenRan>>
    /\ UNCHANGED ctxVars
    /\ UNCHANGED turnVars
    /\ UNCHANGED sessionVars

\* a variant whose reaction writes the sentinel again
ThenWrites_Twice == <<Terminate, Terminate>>

\* the chunks the fulfilment reaction writes before it closes the writer
ThenWrites == <<Terminate>>

\* the reaction registered by agentPromise.then(...): it has a fulfilment
\* handler only, so it runs when, and only when, the promise fulfilled
ThenReactionEnabled == initState = "fulfilled"

ThenHandler ==
    /\ ThenReactionEnabled
    /\ ~thenRan
    /\ written' = written \o ThenWrites
    /\ readable' = TransformAll(readable, ThenWrites)
    /\ calls' = calls \o [i \in 1..Len(ThenWrites) |-> "write"] \o <<"close">>
    /\ thenRan' = TRUE
    /\ UNCHANGED <<body, url, quota, cpc, agentId, response, initState>>
    /\ UNCHANGED ctxVars
    /\ UNCHANGED turnVars
    /\ UNCHANGED sessionVars

CtrlNext ==
    \/ ParseBody
    \/ QuotaRejects
    \/ QuotaPasses
    \/ AllRejects
    \/ AllFulfils
    \/ TemplateRejects
    \/ TemplateFulfils
    \/ AgentEmitChunk
    \/ InitFulfils
    \/ InitRejects
    \/ ThenHandler

----------------------------------------------------------------------------
(* Conversational turn: values.  A string is a sequence of tokens, so that  *)
(* concatenation is \o and `includes` is a search.                          *)

EmptyString == <<>>

\* the marker searched for by content.includes('Internal Memo')
MemoMarker == "Internal Memo"

FALLBACK_USER_RESPONSE == <<"I understand you'd like to make some changes">>

QueuedAck == <<"Modification request queued successfully">>

\* content is a plain string or a structured payload (an array of parts)
StringContent(v) == [t |-> "string", v |-> v]

PartsContent(v) == [t |-> "parts", v |-> v]

\* typeof(content) === 'string'
IsString(content) == content.t = "string"

\* String.prototype.includes, for a one-token needle
Includes(str, needle) == \E i \in 1..Len(str) : str[i] = needle

\* inferutils/common: createUserMessage, createAssistantMessage
createUserMessage(text) == [role |-> "user", content |-> StringContent(text)]

createAssistantMessage(text) == [role |-> "assistant", content |-> StringContent(text)]

\* {...message, conversationId: id}
WithConversationId(m, id) ==
    [role |-> m.role, content |-> m.content, conversationId |-> id]

\* IdGenerator.generateConversationId(): the k-th id issued after n others
GeneratedId(n, k) == n + k

\* the histories a turn is started with; their ids were issued earlier
PastHistories ==
    {<<>>,
     <<WithConversationId(createUserMessage(<<"hello">>), 1),
       WithConversationId(createAssistantMessage(<<"**<", MemoMarker, ">**", "Project Updates">>), 2)>>}

\* the inputs a turn is called with
TurnInputs ==
    {[userMessage |-> <<"add a dark mode toggle">>, pastMessages |-> <<>>],
     [userMessage |-> <<"fix", MemoMarker, "bug">>,
      pastMessages |-> CHOOSE h \in PastHistories : h # <<>>]}

Fragments == {<<"Sure, ">>, <<"adding", "it now.">>}

\* the messages an inference call can report in newMessages
NewMessagePool ==
    {[role |-> "assistant", content |-> StringContent(<<"note", MemoMarker>>)],
     [role |-> "assistant", content |-> StringContent(<<"calling tool">>)],
     [role |-> "assistant", content |-> PartsContent(<<MemoMarker>>)],
     [role |-> "tool", content |-> StringContent(<<MemoMarker, "result">>)]}

SeqsUpTo(S, n) == UNION {[1..k -> S] : k \in 0..n}

\* result.newMessages: absent, or a sequence of messages
NewMessagesChoices == {[present |-> FALSE, v |-> <<>>]}
    \cup {[present |-> TRUE, v |-> nm] : nm \in SeqsUpTo(NewMessagePool, MaxNewMessages)}

ErrorClasses == {"RateLimitExceededError", "SecurityError", "Error", "TypeError"}

\* the errors that can be thrown inside the try block: each is one object
Errors == {[class |-> c, ident |-> "e1"] : c \in ErrorClasses}

NoError == [class |-> "none", ident |-> "none"]

ToolNames == {"web_search", "get_weather", "queue_request"}

ModificationRequests == {<<"make the header sticky">>, <<"add dark mode">>}

\* the invocations the inference loop can make: a tool and its arguments
ToolInvocations ==
    {[name |-> "web_search", args |-> <<"query">>],
     [name |-> "get_weather", args |-> <<"city">>]}
    \cup {[name |-> "queue_request", args |-> m] : m \in ModificationRequests}

\* one execution of a tool by the inference loop: the invocation, whether the
\* implementation returned, and whether the loop ran the onComplete hook.
\* queue_request's implementation has no failing statement.
ToolRuns ==
    {[inv |-> inv, ok |-> TRUE, completes |-> TRUE] : inv \in ToolInvocations}
    \cup {[inv |-> [name |-> "web_search", args |-> <<"query">>], ok |-> FALSE,
           completes |-> c] : c \in BOOLEAN}

\* the executions of a turn that is followed for its text and its history:
\* a tool that returns, a tool that fails, a queued request
ShortTurnToolRuns ==
    {r \in ToolRuns : /\ r.inv.name # "get_weather"
                      /\ r.inv.args # <<"make the header sticky">>
                      /\ (r.ok \/ ~r.completes)}

\* what the web search and weather implementations return
ToolOutput == [content |-> <<"tool output">>]

\* what the inference loop records for an implementation that threw
ToolFailure == [error |-> <<"tool failed">>]

NoOutcome == [type |-> "none"]

NoResult == [present |-> FALSE]

----------------------------------------------------------------------------
(* Conversational turn: UserConversationProcessor.execute *)

\* the callback call made by onChunk
ChunkNotification(chunk, id) ==
    [message |-> chunk, conversationId |-> id, isStreaming |-> TRUE]

\* the callback calls made by the onStart and onComplete hooks of attachLifecycle
ToolNotification(name, status, args, id) ==
    [message |-> EmptyString, conversationId |-> id, isStreaming |-> FALSE,
     tool |-> [name |-> name, status |-> status, args |-> args]]

\* a variant whose filter was left out
KeepNewMessage_KeepAll(m) == TRUE

\* the filter applied to result.newMessages
KeepNewMessage(m) ==
    ~(m.role = "assistant" /\ IsString(m.content) /\ Includes(m.content.v, MemoMarker))

RECURSIVE FilterNew(_)
FilterNew(ms) ==
    IF ms = <<>> THEN <<>>
    ELSE IF KeepNewMessage(Head(ms)) THEN <<Head(ms)>> \o FilterNew(Tail(ms))
    ELSE FilterNew(Tail(ms))

\* result.newMessages?.filter(...) || [], each kept message given a new id;
\* n ids were issued before
TaggedNewMessages(nm, n) ==
    LET kept == IF nm.present THEN FilterNew(nm.v) ELSE <<>> IN
      [i \in 1..Len(kept) |-> WithConversationId(kept[i], GeneratedId(n, i))]

\* a variant that tags the final message with the turn correlation id
CompletedMessages_TurnId(msgs, res, n) ==
    LET tagged == TaggedNewMessages(res.newMessages, n) IN
      msgs \o tagged
           \o <<WithConversationId(createAssistantMessage(res.string), aiConversationId)>>

\* a variant that generates one id and gives it to every message it appends
CompletedMessages_SharedId(msgs, res, n) ==
    LET kept == IF res.newMessages.present THEN FilterNew(res.newMessages.v) ELSE <<>> IN
      msgs \o [i \in 1..Len(kept) |-> WithConversationId(kept[i], GeneratedId(n, 1))]
           \o <<WithConversationId(createAssistantMessage(res.string), GeneratedId(n, 1))>>

\* the array `messages` after the two push calls of the success path
CompletedMessages(msgs, res, n) ==
    LET tagged == TaggedNewMessages(res.newMessages, n) IN
      msgs \o tagged
           \o <<WithConversationId(createAssistantMessage(res.string),
                                   GeneratedId(n, Len(tagged) + 1))>>

\* the value returned by the success path
CompletedOutcome(msgs, res, n) ==
    [type |-> "return",
     conversationResponse |-> [enhancedUserRequest |-> extractedEnhancedRequest,
                               userResponse |-> extractedUserResponse],
     messages |-> CompletedMessages(msgs, res, n)]

\* a variant that recovers from every error
Propagates_Never(err) == FALSE

\* error instanceof RateLimitExceededError || error instanceof SecurityError
Propagates(err) == err.class \in {"RateLimitExceededError", "SecurityError"}

\* a variant that throws a new error made from the caught one
Rethrown_Wrapped(err) == [class |-> "Error", ident |-> "wrapper", cause |-> err]

\* `throw error`
Rethrown(err) == err

\* a variant whose fallback history leaves the user message out
FallbackOutcome_NoUserMessage(um, past, n) ==
    [type |-> "return",
     conversationResponse |-> [enhancedUserRequest |-> <<"User request: ">> \o um,
                               userResponse |-> FALLBACK_USER_RESPONSE],
     messages |-> past
        \o <<WithConversationId(createAssistantMessage(FALLBACK_USER_RESPONSE),
                                GeneratedId(n, 2))>>]

\* a variant whose fallback keeps what the failed turn had gathered
FallbackOutcome_KeepsTurnState(um, past, n) ==
    [type |-> "return",
     conversationResponse |->
        [enhancedUserRequest |-> IF extractedEnhancedRequest # EmptyString
                                 THEN extractedEnhancedRequest
                                 ELSE <<"User request: ">> \o um,
         userResponse |-> FALLBACK_USER_RESPONSE],
     messages |-> past
        \o <<WithConversationId(createUserMessage(um), GeneratedId(n, 1))>>
        \o (IF extractedUserResponse # EmptyString
            THEN <<WithConversationId(createAssistantMessage(extractedUserResponse),
                                      GeneratedId(n, 2))>>
            ELSE <<>>)
        \o <<WithConversationId(createAssistantMessage(FALLBACK_USER_RESPONSE),
                                GeneratedId(n, 3))>>]

\* the value returned by the fallback path of the catch block
FallbackOutcome(um, past, n) ==
    [type |-> "return",
     conversationResponse |-> [enhancedUserRequest |-> <<"User request: ">> \o um,
                               userResponse |-> FALLBACK_USER_RESPONSE],
     messages |-> past
        \o <<WithConversationId(createUserMessage(um), GeneratedId(n, 1)),
             WithConversationId(createAssistantMessage(FALLBACK_USER_RESPONSE),
                                GeneratedId(n, 2))>>]

\* the catch block, entered with `err` after n ids were issued
Catch(err, n) ==
    /\ raised' = err
    /\ IF Propagates(err)
       THEN /\ outcome' = [type |-> "throw", error |-> Rethrown(err)]
            /\ tpc' = "THROWN"
            /\ nextId' = n
       ELSE /\ outcome' = FallbackOutcome(userMessage, pastMessages, n)
            /\ tpc' = "FALLBACK"
            /\ nextId' = n + 2

TurnInit ==
    /\ tpc = "PENDING"
    /\ \E inp \in TurnInputs :
          /\ userMessage = inp.userMessage
          /\ pastMessages = inp.pastMessages
    /\ messages = <<>>
    /\ extractedUserResponse = EmptyString
    /\ extractedEnhancedRequest = EmptyString
    /\ aiConversationId = 0
    /\ nextId = Len(pastMessages)
    /\ cbLog = <<>>
    /\ streamed = <<>>
    /\ toolCalls = <<>>
    /\ raised = NoError
    /\ inferResult = NoResult
    /\ outcome = NoOutcome

\* building the system prompt throws: nothing of the turn exists yet
PromptThrows ==
    /\ tpc = "PENDING"
    /\ \E err \in Errors : Catch(err, nextId)
    /\ UNCHANGED <<userMessage, pastMessages, messages, extractedUserResponse,
                   extractedEnhancedRequest, aiConversationId, cbLog, streamed,
                   toolCalls, inferResult>>
    /\ UNCHANGED ctrlVars
    /\ UNCHANGED sessionVars

\* a variant that pushes the user message onto the caller's array
CallerArrayAfterSpread_Pushed(past, m) == Append(past, m)

\* the caller's array after `[...pastMessages, m]`: the spread builds a new
\* array and leaves the caller's as it was
CallerArrayAfterSpread(past, m) == past

\* the try block up to the call of executeInference
StartInference ==
    /\ tpc = "PENDING"
    /\ messages' = pastMessages
          \o <<WithConversationId(createUserMessage(userMessage), GeneratedId(nextId, 1))>>
    /\ pastMessages' = CallerArrayAfterSpread(pastMessages,
          WithConversationId(createUserMessage(userMessage), GeneratedId(nextId, 1)))
    /\ aiConversationId' = GeneratedId(nextId, 2)
    /\ nextId' = nextId + 2
    /\ tpc' = "STREAMING"
    /\ UNCHANGED <<userMessage, extractedUserResponse,
                   extractedEnhancedRequest, cbLog, streamed, toolCalls, raised,
                   inferResult, outcome>>
    /\ UNCHANGED ctrlVars
    /\ UNCHANGED sessionVars

\* a variant that keeps only the latest fragment
Accumulate_Overwrite(acc, chunk) == chunk

\* extractedUserResponse += chunk
Accumulate(acc, chunk) == acc \o chunk

\* the inference engine streams one of `fragments`, at most maxFragments in
\* a turn: onChunk
OnChunkWithin(maxFragments, fragments) ==
    /\ tpc = "STREAMING"
    /\ Len(streamed) < maxFragments
    /\ \E chunk \in fragments :
         /\ streamed' = Append(streamed, chunk)
         /\ cbLog' = Append(cbLog, ChunkNotification(chunk, aiConversationId))
         /\ extractedUserResponse' = Accumulate(extractedUserResponse, chunk)
    /\ UNCHANGED <<tpc, userMessage, pastMessages, messages, extractedEnhancedRequest,
                   aiConversationId, nextId, toolCalls, raised, inferResult, outcome>>
    /\ UNCHANGED ctrlVars
    /\ UNCHANGED sessionVars

OnChunk == OnChunkWithin(MaxFragments, Fragments)

\* the onStart hook added by attachLifecycle
OnStart(inv, id) == ToolNotification(inv.name, "start", inv.args, id)

\* the onComplete hook added by attachLifecycle
OnComplete(inv, id) == ToolNotification(inv.name, "success", inv.args, id)

\* the hooks the inference loop calls around one execution
HookCalls(run, id) ==
    <<OnStart(run.inv, id)>>
        \o (IF run.completes THEN <<OnComplete(run.inv, id)>> ELSE <<>>)

\* a variant that keeps the first request of a turn
StateMutator_KeepsFirst(modificationRequest) ==
    IF extractedEnhancedRequest = EmptyString THEN modificationRequest
    ELSE extractedEnhancedRequest

\* the stateMutator handed to buildEditAppTool
StateMutator(modificationRequest) == modificationRequest

\* the implementation of queue_request: the slot after it, and what it returns
EditAppImplementation(args) ==
    [slot |-> StateMutator(args), result |-> [content |-> QueuedAck]]

\* what the inference loop gets back from one execution
ToolResult(run) ==
    IF ~run.ok THEN ToolFailure
    ELSE IF run.inv.name = "queue_request" THEN EditAppImplementation(run.inv.args).result
    ELSE ToolOutput

\* the inference loop executes one wrapped tool, at most maxCalls in a turn
InvokeToolWithin(maxCalls, runs) ==
    /\ tpc = "STREAMING"
    /\ Len(toolCalls) < maxCalls
    /\ \E run \in runs :
         /\ toolCalls' = Append(toolCalls,
              [name |-> run.inv.name, args |-> run.inv.args, ok |-> run.ok,
               result |-> ToolResult(run)])
         /\ cbLog' = cbLog \o HookCalls(run, aiConversationId)
         /\ extractedEnhancedRequest' =
              IF run.inv.name = "queue_request"
              THEN EditAppImplementation(run.inv.args).slot
              ELSE extractedEnhancedRequest
    /\ UNCHANGED <<tpc, userMessage, pastMessages, messages, extractedUserResponse,
                   aiConversationId, nextId, streamed, raised, inferResult, outcome>>
    /\ UNCHANGED ctrlVars
    /\ UNCHANGED sessionVars

InvokeTool == InvokeToolWithin(MaxToolCalls, ShortTurnToolRuns)

\* executeInference rejects, at any point of the stream
InferenceThrows ==
    /\ tpc = "STREAMING"
    /\ \E err \in Errors : Catch(err, nextId)
    /\ UNCHANGED <<userMessage, pastMessages, messages, extractedUserResponse,
                   extractedEnhancedRequest, aiConversationId, cbLog, streamed,
                   toolCalls, inferResult>>
    /\ UNCHANGED ctrlVars
    /\ UNCHANGED sessionVars

\* the strings executeInference can resolve with: the text it streamed, or
\* another text
ResultStrings == {extractedUserResponse, <<"final answer">>}

\* executeInference resolves with newMessages among `choices`: the success
\* path runs to its return
InferenceReturnsWith(choices) ==
    /\ tpc = "STREAMING"
    /\ \E str \in ResultStrings, nm \in choices :
         LET res == [present |-> TRUE, string |-> str, newMessages |-> nm]
             out == CompletedOutcome(messages, res, nextId) IN
           /\ inferResult' = res
           /\ outcome' = out
           /\ messages' = out.messages
           /\ nextId' = nextId + (Len(out.messages) - Len(messages))
    /\ tpc' = "COMPLETED"
    /\ UNCHANGED <<userMessage, pastMessages, extractedUserResponse,
                   extractedEnhancedRequest, aiConversationId, cbLog, streamed,
                   toolCalls, raised>>
    /\ UNCHANGED ctrlVars
    /\ UNCHANGED sessionVars

InferenceReturns == InferenceReturnsWith(NewMessagesChoices)

RelevantProjectUpdateWebsoketMessages ==
    {"PHASE_IMPLEMENTING", "PHASE_IMPLEMENTED", "CODE_REVIEW", "FILE_REGENERATING",
     "FILE_REGENERATED", "DEPLOYMENT_COMPLETED", "COMMAND_EXECUTING"}

\* the template literal preparedMessage
PreparedMessage(updateType) ==
    <<"**<", MemoMarker, ">**", "Project Updates: ", updateType, "</", MemoMarker, ">">>

\* a variant that gives every memo the same id
ProjectUpdateMessages_FixedId(updateType, n) ==
    <<[role |-> "assistant", content |-> StringContent(PreparedMessage(updateType)),
       conversationId |-> 0]>>

\* the array returned by the try block, after n ids were issued
ProjectUpdateMessages(updateType, n) ==
    <<[role |-> "assistant", content |-> StringContent(PreparedMessage(updateType)),
       conversationId |-> GeneratedId(n, 1)]>>

\* processProjectUpdates: the try block returns the memo, or something in it
\* throws and the catch block returns []
processProjectUpdates ==
    /\ Len(updateLog) < MaxUpdates
    /\ \E updateType \in RelevantProjectUpdateWebsoketMessages, fails \in BOOLEAN :
          LET returned == IF fails THEN <<>>
                          ELSE ProjectUpdateMessages(updateType, nextId) IN
            /\ updateLog' = Append(updateLog,
                  [updateType |-> updateType, failed |-> fails,
                   outcome |-> [type |-> "return", messages |-> returned]])
            /\ nextId' = nextId + Len(returned)
    /\ UNCHANGED <<tpc, userMessage, pastMessages, messages, extractedUserResponse,
                   extractedEnhancedRequest, aiConversationId, cbLog, streamed,
                   toolCalls, raised, inferResult, outcome>>
    /\ UNCHANGED pastTurns
    /\ UNCHANGED ctrlVars

UpdateNext == processProjectUpdates

TurnNext ==
    \/ PromptThrows
    \/ StartInference
    \/ OnChunk
    \/ InvokeTool
    \/ InferenceThrows
    \/ InferenceReturns

----------------------------------------------------------------------------
(* Specifications *)

\* the turn processor at rest, while the controller runs
TurnIdle ==
    /\ tpc = "IDLE"
    /\ userMessage = EmptyString
    /\ pastMessages = <<>>
    /\ messages = <<>>
    /\ extractedUserResponse = EmptyString
    /\ extractedEnhancedRequest = EmptyString
    /\ aiConversationId = 0
    /\ nextId = 0
    /\ cbLog = <<>>
    /\ streamed = <<>>
    /\ toolCalls = <<>>
    /\ raised = NoError
    /\ inferResult = NoResult
    /\ outcome = NoOutcome

\* the controller at rest, while a turn runs
CtrlIdle ==
    /\ body = [kind |-> "invalid"]
    /\ url = [protocol |-> "http:", host |-> "app.example"]
    /\ cpc = "idle"
    /\ quota = "notcalled"
    /\ calls = <<>>
    /\ agentId = NoId
    /\ written = <<>>
    /\ readable = EmptyReadable
    /\ response = NoResponse
    /\ initState = "notstarted"
    /\ thenRan = FALSE
    /\ userConfigsRecord = NoRecord
    /\ inferenceContext = NoContext
    /\ contextArgs = <<>>

\* no project update summarized, no turn ended yet
SessionFresh ==
    /\ updateLog = <<>>
    /\ pastTurns = <<>>

BootstrapInit == CtrlInit /\ TurnIdle /\ SessionFresh

BootstrapSpec == BootstrapInit /\ [][CtrlNext]_vars

\* The runtime runs every handler continuation and every promise reaction
\* that is ready; nothing obliges the agent to relay a fragment or to settle.
BootstrapFairSpec ==
    /\ BootstrapSpec
    /\ WF_vars(ParseBody)
    /\ WF_vars(QuotaRejects \/ QuotaPasses)
    /\ WF_vars(AllRejects \/ AllFulfils)
    /\ WF_vars(TemplateRejects \/ TemplateFulfils)
    /\ WF_vars(ThenHandler)

TurnSpecInit == CtrlIdle /\ TurnInit /\ SessionFresh

TurnSpec == TurnSpecInit /\ [][TurnNext]_vars

\* A session: the agent runs one turn after the other, each on the history
\* the turn before it returned.
SessionFragments == {<<"Sure, ">>}

SessionToolRuns == {r \in ShortTurnToolRuns : r.ok}

SessionNewMessagesChoices ==
    {[present |-> FALSE, v |-> <<>>],
     [present |-> TRUE,
      v |-> <<[role |-> "tool", content |-> StringContent(<<MemoMarker, "result">>)]>>]}

FollowUpMessages == {<<"now add tests">>}

OnChunkInSession == OnChunkWithin(MaxSessionFragments, SessionFragments)

InvokeToolInSession == InvokeToolWithin(MaxSessionToolCalls, SessionToolRuns)

InferenceReturnsInSession == InferenceReturnsWith(SessionNewMessagesChoices)

\* what the session keeps of the turn that ended: its id, what it was given,
\* what it returned, and on what the following turn is started
EndedTurn(next) ==
    [turnId |-> aiConversationId, userMessage |-> userMessage, ended |-> tpc,
     pastMessages |-> pastMessages, returned |-> outcome.messages, next |-> next]

\* execute() is called again, with `history` as pastMessages and the next
\* user message; the session has at most maxTurns turns
StartTurnOn(maxTurns, next, history) ==
    /\ tpc \in {"COMPLETED", "FALLBACK"}
    /\ Len(pastTurns) + 1 < maxTurns
    /\ pastTurns' = Append(pastTurns, EndedTurn(next))
    /\ pastMessages' = history
    /\ userMessage' \in FollowUpMessages
    /\ tpc' = "PENDING"
    /\ messages' = <<>>
    /\ extractedUserResponse' = EmptyString
    /\ extractedEnhancedRequest' = EmptyString
    /\ aiConversationId' = 0
    /\ cbLog' = <<>>
    /\ streamed' = <<>>
    /\ toolCalls' = <<>>
    /\ raised' = NoError
    /\ inferResult' = NoResult
    /\ outcome' = NoOutcome
    /\ UNCHANGED <<nextId, updateLog>>
    /\ UNCHANGED ctrlVars

\* the agent keeps the returned history and calls execute() again with it
\* and the next user message
NextTurn == StartTurnOn(MaxTurns, "returned", outcome.messages)

SessionNext ==
    \/ PromptThrows
    \/ StartInference
    \/ OnChunkInSession
    \/ InvokeToolInSession
    \/ InferenceThrows
    \/ InferenceReturnsInSession
    \/ NextTurn

SessionSpec == TurnSpecInit /\ [][SessionNext]_vars

\* A session followed for its histories: turns without tools, each started
\* on the history the turn before it returned or, when the caller does not
\* serialize its turns, on the snapshot the turn before it was given.  The
\* turns share nothing but the id generator, so that two turns running on
\* one snapshot return what they return when run one after the other.
NextTurnInHistory == StartTurnOn(MaxHistoryTurns, "returned", outcome.messages)

TurnOnSameSnapshot == StartTurnOn(MaxHistoryTurns, "snapshot", pastMessages)

HistoryNext ==
    \/ PromptThrows
    \/ StartInference
    \/ OnChunkInSession
    \/ InferenceThrows
    \/ InferenceReturnsInSession
    \/ NextTurnInHistory
    \/ TurnOnSameSnapshot

HistorySpec == TurnSpecInit /\ [][HistoryNext]_vars

\* The processor summarizing project updates, no turn running.
UpdateInit == CtrlIdle /\ TurnIdle /\ SessionFresh

UpdateSpec == UpdateInit /\ [][UpdateNext]_vars

\* A turn whose inference loop executes several tools in a row, and reports
\* no new structured messages.
NoNewMessages == {[present |-> FALSE, v |-> <<>>]}

OnChunkInLoop == OnChunkWithin(MaxLoopFragments, Fragments)

InvokeToolInLoop == InvokeToolWithin(MaxLoopToolCalls, ToolRuns)

InferenceReturnsFromLoop == InferenceReturnsWith(NoNewMessages)

ToolLoopNext ==
    \/ PromptThrows
    \/ StartInference
    \/ OnChunkInLoop
    \/ InvokeToolInLoop
    \/ InferenceThrows
    \/ InferenceReturnsFromLoop

ToolLoopSpec == TurnSpecInit /\ [][ToolLoopNext]_vars

----------------------------------------------------------------------------
(* Properties of the bootstrap controller *)

TerminateWritten == \E i \in 1..Len(written) : written[i] = Terminate

WriterClosed == Count(calls, "close") >= 1

InitSettled == initState \in {"fulfilled", "rejected"}

\* C1: once the 200 streaming response has been returned, whenever the
\* promise of initialize() settles, by fulfilment or by rejection, the
\* terminate sentinel is eventually written and the writer closed.
C1_StreamAlwaysEnds ==
    (response = StreamResponse /\ InitSettled) ~> (TerminateWritten /\ WriterClosed)

\* C2: in a bootstrap whose initialization fulfilled and whose reaction has
\* run, the terminate sentinel was written exactly once; and in every state
\* a written sentinel is the last write made on the writer, so that neither
\* the first event nor a {chunk} event follows it; the readable side holds
\* exactly the encoded events written before it.
C2_TerminateOnceAndLast ==
    /\ \A i \in 1..Len(written) : written[i] = Terminate => i = Len(written)
    /\ Count(written, Terminate) <= 1
    /\ thenRan =>
          /\ Count(written, Terminate) = 1
          /\ Count(calls, "write") = Len(written)
          /\ calls[Len(calls)] = "close"
          /\ readable.terminated
          /\ Len(readable.enqueued) = Len(written) - 1

C2_Witness ==
    /\ thenRan
    /\ response = StreamResponse
    /\ \E i \in 1..Len(written) : IsChunk(written[i])

\* the least position of call c in the call log (0 when it was never made)
FirstCall(c) ==
    IF Positions(calls, c) = {} THEN 0
    ELSE CHOOSE i \in Positions(calls, c) : \A j \in Positions(calls, c) : i <= j

\* C3: in every bootstrap that returned the 200 stream, exactly one progress
\* event was written; it carries message, agentId, websocketUrl,
\* httpStatusUrl and template, the two URLs naming the generated session id;
\* it is the first write, made before the one call of initialize(), and so
\* precedes every {chunk} event and the terminate sentinel.
C3_OneProgressEventFirst ==
    response = StreamResponse =>
        /\ Cardinality({i \in 1..Len(written) : IsProgress(written[i])}) = 1
        /\ IsProgress(written[1])
        /\ DOMAIN written[1] =
              {"message", "agentId", "websocketUrl", "httpStatusUrl", "template"}
        /\ written[1].agentId = agentId
        /\ agentId \in AgentIds
        /\ written[1].websocketUrl[5] = agentId
        /\ written[1].websocketUrl[1] \in {"ws:", "wss:"}
        /\ (written[1].websocketUrl[1] = "wss:") <=> (url.protocol = "https:")
        /\ written[1].httpStatusUrl[5] = agentId
        /\ \E td \in TemplateDetails :
              written[1].template = [name |-> td.name, files |-> td.files]
        /\ Count(calls, "initialize") = 1
        /\ FirstCall("write") # 0
        /\ FirstCall("write") < FirstCall("initialize")
        /\ \A i \in 2..Len(written) : IsChunk(written[i]) \/ written[i] = Terminate

C3_Witness ==
    /\ response = StreamResponse
    /\ TerminateWritten
    /\ Cardinality({i \in 1..Len(written) : IsChunk(written[i])}) = MaxBlueprintChunks

\* C4, as stated: for a quota-rejected request no stream was opened, not even
\* constructed, and no agent handle was requested.
C4_NoStreamNoStub ==
    quota = "rejected" =>
        /\ Count(calls, "TransformStream") = 0
        /\ Count(calls, "getAgentStub") = 0

\* C4, amended: for a quota-rejected request the TransformStream and its
\* writer were constructed before the quota engine was asked, but the stream
\* is neither returned to the caller nor written to, and no agent handle was
\* requested.
C4_StreamUnusedNoStub ==
    quota = "rejected" =>
        /\ Count(calls, "TransformStream") = 1
        /\ FirstCall("TransformStream") < FirstCall("enforceAppCreationRateLimit")
        /\ response.kind # "stream"
        /\ written = <<>>
        /\ readable = EmptyReadable
        /\ Count(calls, "write") + Count(calls, "close") = 0
        /\ Count(calls, "getAgentStub") = 0

C4_Witness == quota = "rejected" /\ cpc = "done" /\ url.protocol = "https:"

\* C5: when the quota check rejects, the handler returns an HTTP 429 error
\* response; generateId() was never called, so no session id exists, and
\* neither the model-config fetch, template resolution nor initialize()
\* happened.
C5_QuotaRejectedIs429 ==
    quota = "rejected" =>
        /\ cpc = "done"
        /\ response = [status |-> 429, kind |-> "json"]
        /\ Count(calls, "generateId") = 0
        /\ agentId = NoId
        /\ Count(calls, "getUserModelConfigs") = 0
        /\ Count(calls, "getTemplateForQuery") = 0
        /\ Count(calls, "initialize") = 0
        /\ initState = "notstarted"

C5_Witness == quota = "rejected" /\ response.status = 429 /\ url.protocol = "http:"

\* the request has no usable query: the body did not parse, or the parsed
\* value has no query, or an empty one
QueryMissing == body.kind # "object" \/ body.query \in {Undefined, ""}

\* C6: every request whose body cannot be parsed as JSON or whose query is
\* missing is answered with HTTP 400 before any side effect: the quota engine
\* is not consulted, no stream is created, no session id is generated and no
\* agent handle is requested.
C6_BadRequestIs400 ==
    (cpc = "done" /\ QueryMissing) =>
        /\ response = [status |-> 400, kind |-> "json"]
        /\ calls = <<"json">>
        /\ quota = "notcalled"
        /\ agentId = NoId

----------------------------------------------------------------------------
(* Properties of the conversational turn *)

SameMessage(m, raw) == m.role = raw.role /\ m.content = raw.content

\* C7: whenever an error that is neither a quota error nor a security error
\* is thrown inside the turn, also after fragments were streamed or after
\* queue_request stored an enhanced request, execute() returns exactly the
\* fallback shape: the enhanced request is "User request: " + userMessage,
\* the response is the fixed fallback string, and the messages are
\* pastMessages, the raw user message and one fallback assistant message.
C7_FallbackShape ==
    (raised # NoError /\ raised.class \notin {"RateLimitExceededError", "SecurityError"}) =>
        /\ tpc = "FALLBACK"
        /\ outcome.type = "return"
        /\ outcome.conversationResponse =
              [enhancedUserRequest |-> <<"User request: ">> \o userMessage,
               userResponse |-> FALLBACK_USER_RESPONSE]
        /\ Len(outcome.messages) = Len(pastMessages) + 2
        /\ SubSeq(outcome.messages, 1, Len(pastMessages)) = pastMessages
        /\ SameMessage(outcome.messages[Len(pastMessages) + 1],
                       [role |-> "user", content |-> StringContent(userMessage)])
        /\ SameMessage(outcome.messages[Len(pastMessages) + 2],
                       [role |-> "assistant",
                        content |-> StringContent(FALLBACK_USER_RESPONSE)])

C7_Witness ==
    /\ tpc = "FALLBACK"
    /\ extractedUserResponse # EmptyString
    /\ extractedEnhancedRequest # EmptyString
    /\ pastMessages # <<>>

\* C8: whenever a quota error or a security error is thrown inside the turn,
\* execute() throws that same error object, not a wrapper, and returns
\* nothing: no fallback response and no history.
C8_QuotaSecurityRethrown ==
    (raised.class \in {"RateLimitExceededError", "SecurityError"}) =>
        /\ tpc = "THROWN"
        /\ outcome.type = "throw"
        /\ outcome.error = raised
        /\ DOMAIN outcome = {"type", "error"}

C8_Witness ==
    /\ tpc = "THROWN"
    /\ raised.class = "SecurityError"
    /\ extractedUserResponse # EmptyString

\* the new messages the code's filter keeps, in their order
KeptNew == IF inferResult.newMessages.present
           THEN SelectSeq(inferResult.newMessages.v, KeepNewMessage)
           ELSE <<>>

\* C9: when inference succeeds the returned messages are, in this order,
\* pastMessages, the user message, the filtered newMessages in their
\* original order, and exactly one final assistant message; every message
\* the turn appended carries a generated correlation id that no message of
\* pastMessages carries, and these ids are pairwise distinct.
C9_CompletedHistory ==
    tpc = "COMPLETED" =>
        LET ms == outcome.messages
            k == Len(pastMessages) IN
          /\ outcome.type = "return"
          /\ Len(ms) = k + 1 + Len(KeptNew) + 1
          /\ SubSeq(ms, 1, k) = pastMessages
          /\ SameMessage(ms[k + 1], [role |-> "user", content |-> StringContent(userMessage)])
          /\ \A j \in 1..Len(KeptNew) : SameMessage(ms[k + 1 + j], KeptNew[j])
          /\ ms[Len(ms)].role = "assistant"
          /\ IsString(ms[Len(ms)].content)
          /\ \A i \in (k + 1)..Len(ms) :
                /\ "conversationId" \in DOMAIN ms[i]
                /\ \A j \in 1..k : ms[i].conversationId # ms[j].conversationId
                /\ \A j \in (k + 1)..Len(ms) :
                      i # j => ms[i].conversationId # ms[j].conversationId

C9_Witness ==
    /\ tpc = "COMPLETED"
    /\ pastMessages # <<>>
    /\ Len(KeptNew) = 2
    /\ KeptNew[1] # KeptNew[2]

\* a message is tagged as an internal memo: its content holds the marker
MemoTagged(m) == Includes(m.content.v, MemoMarker)

\* the part of the returned messages that comes from newMessages
ReturnedNew ==
    SubSeq(outcome.messages, Len(pastMessages) + 2, Len(outcome.messages) - 1)

\* C10, as stated: when inference succeeds, no memo-tagged message of
\* newMessages is among the returned messages, whatever its role and whether
\* its content is plain text or a structured payload.
C10_NoTaggedMessageReturned ==
    tpc = "COMPLETED" =>
        \A i \in 1..Len(ReturnedNew) : ~MemoTagged(ReturnedNew[i])

\* C10, amended: when inference succeeds, no memo-tagged assistant message
\* with plain-text content of newMessages is among the returned messages; a
\* tagged message of another role, or one whose content is a structured
\* payload, is returned like any other new message.
C10_TaggedAssistantTextDropped ==
    tpc = "COMPLETED" =>
        LET nm == inferResult.newMessages.v
            Dropped(m) == m.role = "assistant" /\ IsString(m.content) /\ MemoTagged(m)
            Others(seq) == {i \in 1..Len(seq) : MemoTagged(seq[i]) /\ ~Dropped(seq[i])} IN
          /\ \A i \in 1..Len(ReturnedNew) : ~Dropped(ReturnedNew[i])
          /\ Cardinality(Others(ReturnedNew)) = Cardinality(Others(nm))

C10_Witness ==
    /\ tpc = "COMPLETED"
    /\ inferResult.newMessages.present
    /\ \E i \in 1..Len(inferResult.newMessages.v) :
          LET m == inferResult.newMessages.v[i] IN
            m.role = "assistant" /\ IsString(m.content) /\ MemoTagged(m)
    /\ \E i \in 1..Len(ReturnedNew) : MemoTagged(ReturnedNew[i])

----------------------------------------------------------------------------
(* Properties of streaming and of the tool lifecycle *)

\* the callback calls that were streaming updates, in order
StreamingLog == SelectSeq(cbLog, LAMBDA n : n.isStreaming)

\* the callback calls that were tool notifications, in order
ToolLog == SelectSeq(cbLog, LAMBDA n : ~n.isStreaming)

RECURSIVE ConcatAll(_)
ConcatAll(ss) == IF ss = <<>> THEN EmptyString ELSE Head(ss) \o ConcatAll(Tail(ss))

\* C11: in a turn that completed, the streaming updates the callback
\* received are exactly the fragments the inference engine produced, one
\* call per fragment and in the order produced, each with isStreaming = true
\* and the turn correlation id; and the returned userResponse is the
\* concatenation of the fragments in that order, empty when there was none.
C11_FragmentsForwardedAndJoined ==
    tpc = "COMPLETED" =>
        /\ Len(StreamingLog) = Len(streamed)
        /\ \A i \in 1..Len(streamed) :
              /\ StreamingLog[i].message = streamed[i]
              /\ StreamingLog[i].isStreaming = TRUE
              /\ StreamingLog[i].conversationId = aiConversationId
              /\ "tool" \notin DOMAIN StreamingLog[i]
        /\ outcome.type = "return"
        /\ outcome.conversationResponse.userResponse = ConcatAll(streamed)
        /\ (streamed = <<>> => outcome.conversationResponse.userResponse = EmptyString)

C11_Witness ==
    /\ tpc = "COMPLETED"
    /\ streamed = <<<<"Sure, ">>, <<"adding", "it now.">>>>
    /\ toolCalls # <<>>
    /\ outcome.conversationResponse.userResponse = <<"Sure, ", "adding", "it now.">>

\* C12: in a turn that completed, the content of the last message of the
\* returned history is the accumulated streamed text, that is, the
\* userResponse returned for the turn, whatever was streamed and whatever
\* the inference call resolved with.
C12_FinalMessageIsStreamedText ==
    tpc = "COMPLETED" =>
        outcome.messages[Len(outcome.messages)].content
            = StringContent(outcome.conversationResponse.userResponse)

\* the notifications the tool lifecycle owes for the executions `runs`: for
\* each, a start and then one completion telling how it ended
RECURSIVE OwedToolLog(_, _)
OwedToolLog(runs, id) ==
    IF runs = <<>> THEN <<>>
    ELSE <<ToolNotification(Head(runs).name, "start", Head(runs).args, id),
           ToolNotification(Head(runs).name,
                            IF Head(runs).ok THEN "success" ELSE "error",
                            Head(runs).args, id)>>
         \o OwedToolLog(Tail(runs), id)

\* C13: for every execution of a wrapped tool the callback received a start
\* notification and then exactly one completion notification, with status
\* success when the implementation returned and error when it failed, both
\* with the tool name, the arguments, the turn correlation id and
\* isStreaming = false, before the result went back to the inference loop.
C13_StartThenOneCompletion ==
    ToolLog = OwedToolLog(toolCalls, aiConversationId)

\* the positions of the queue_request executions of the turn
QueuePositions == {i \in 1..Len(toolCalls) : toolCalls[i].name = "queue_request"}

\* the modificationRequest of the latest queue_request, empty if there was none
LastQueued ==
    IF QueuePositions = {} THEN EmptyString
    ELSE toolCalls[CHOOSE i \in QueuePositions : \A j \in QueuePositions : j <= i].args

\* C14: in a turn that completed, enhancedUserRequest is empty if
\* queue_request never ran and otherwise the modificationRequest of its
\* latest execution; every queue_request execution returned the same fixed
\* acknowledgement; and a tool execution changes neither the accumulated
\* text nor the message history, and changes the slot only if it is a
\* queue_request.
C14_LatestRequestWins ==
    /\ [](/\ tpc = "COMPLETED" =>
                outcome.conversationResponse.enhancedUserRequest = LastQueued
          /\ tpc = "STREAMING" => extractedEnhancedRequest = LastQueued
          /\ \A i \in QueuePositions :
                toolCalls[i].ok /\ toolCalls[i].result = [content |-> QueuedAck])
    /\ [][toolCalls' # toolCalls =>
            /\ extractedUserResponse' = extractedUserResponse
            /\ streamed' = streamed
            /\ messages' = messages
            /\ pastMessages' = pastMessages
            /\ outcome' = outcome
            /\ (toolCalls'[Len(toolCalls')].name # "queue_request"
                  => extractedEnhancedRequest' = extractedEnhancedRequest)]_vars

C14_Witness ==
    /\ tpc = "COMPLETED"
    /\ Cardinality(QueuePositions) = 2
    /\ toolCalls[1].args # toolCalls[2].args
    /\ streamed # <<>>
    /\ outcome.conversationResponse.enhancedUserRequest = toolCalls[2].args

----------------------------------------------------------------------------
(* Properties of the bootstrap controller: the response and the context *)

\* C15: the HTTP 200 streaming response, with its headers, is returned while
\* initialize() is still pending; and once a response has been returned,
\* nothing changes it, whether initialization settles, how, or when.
C15_ReturnedBeforeInitSettles ==
    /\ [](initState = "pending" => /\ response = StreamResponse
                                   /\ cpc = "done")
    /\ [](InitSettled => response = StreamResponse)
    /\ [][response # NoResponse => response' = response]_vars

C15_Witness ==
    /\ initState = "pending"
    /\ response.status = 200
    /\ response.headers.ContentType = "text/event-stream; charset=utf-8"
    /\ ~TerminateWritten
    /\ \E i \in 1..Len(written) : IsChunk(written[i])

\* C16: every inference context handed out has a model-config entry for an
\* action key exactly if the user's record marks that key isUserOverride,
\* the entry being the record's model fields; it carries the generated
\* session id, the user id and enableRealtimeCodeFix = true; template
\* resolution gets it, and so does initialize().
C16_OnlyUserOverridesForwarded ==
    /\ \A i \in 1..Len(contextArgs) :
          LET ctx == contextArgs[i].context IN
            /\ ctx = inferenceContext
            /\ DOMAIN ctx.userModelConfigs \subseteq DOMAIN userConfigsRecord
            /\ \A key \in DOMAIN userConfigsRecord :
                  /\ (key \in DOMAIN ctx.userModelConfigs)
                        <=> userConfigsRecord[key].isUserOverride
                  /\ key \in DOMAIN ctx.userModelConfigs =>
                        ctx.userModelConfigs[key] = ModelConfigOf(userConfigsRecord[key])
            /\ ctx.agentId = agentId
            /\ agentId \in AgentIds
            /\ ctx.userId = UserId
            /\ ctx.enableRealtimeCodeFix = TRUE
    /\ Count(calls, "getTemplateForQuery") = 1 =>
          /\ Len(contextArgs) >= 1
          /\ contextArgs[1].callee = "getTemplateForQuery"
    /\ Count(calls, "initialize") = 1 =>
          /\ Len(contextArgs) = 2
          /\ contextArgs[2].callee = "initialize"

C16_Witness ==
    /\ Len(contextArgs) = 2
    /\ contextArgs[2].callee = "initialize"
    /\ \E k1, k2 \in ActionKeys :
          /\ userConfigsRecord[k1].isUserOverride
          /\ ~userConfigsRecord[k2].isUserOverride
          /\ k1 \in DOMAIN contextArgs[2].context.userModelConfigs
          /\ k2 \notin DOMAIN contextArgs[2].context.userModelConfigs

----------------------------------------------------------------------------
(* Properties of processProjectUpdates *)

\* C17: every call of processProjectUpdates returns and never raises; a call
\* in which nothing failed returns exactly one assistant message whose text
\* carries the internal-memo marker; two such calls with the same update
\* type return messages with the same content and different correlation
\* ids; a call in which something failed returns the empty sequence.
C17_MemoPerUpdate ==
    /\ \A i \in 1..Len(updateLog) :
          LET call == updateLog[i] IN
            /\ call.outcome.type = "return"
            /\ call.failed => call.outcome.messages = <<>>
            /\ ~call.failed =>
                  /\ Len(call.outcome.messages) = 1
                  /\ call.outcome.messages[1].role = "assistant"
                  /\ IsString(call.outcome.messages[1].content)
                  /\ Includes(call.outcome.messages[1].content.v, MemoMarker)
                  /\ Includes(call.outcome.messages[1].content.v, call.updateType)
    /\ \A i, j \in 1..Len(updateLog) :
          (/\ i < j
           /\ ~updateLog[i].failed
           /\ ~updateLog[j].failed
           /\ updateLog[i].updateType = updateLog[j].updateType) =>
              /\ updateLog[i].outcome.messages[1].content
                    = updateLog[j].outcome.messages[1].content
              /\ updateLog[i].outcome.messages[1].conversationId
                    # updateLog[j].outcome.messages[1].conversationId

C17_Witness ==
    /\ Len(updateLog) = 2
    /\ updateLog[1].updateType = "CODE_REVIEW"
    /\ updateLog[2].updateType = "CODE_REVIEW"
    /\ ~updateLog[1].failed
    /\ ~updateLog[2].failed
    /\ updateLog[1].outcome.messages # updateLog[2].outcome.messages

----------------------------------------------------------------------------
(* Properties of the turn as a state machine *)

\* The state of the turn: PENDING until the inference call has emitted its
\* first fragment, STREAMING from then on until execute() returns or throws.
TurnState == IF tpc = "STREAMING" /\ streamed = <<>> THEN "PENDING" ELSE tpc

\* C18, as stated: a turn changes state only from PENDING to STREAMING and
\* from STREAMING to COMPLETED or FALLBACK (or, on a quota or security
\* error, to the thrown end), so that no turn is COMPLETED or FALLBACK
\* without having been STREAMING.
C18_OnlyThroughStreaming ==
    [][TurnState' # TurnState =>
          <<TurnState, TurnState'>> \in
              {<<"PENDING", "STREAMING">>,
               <<"STREAMING", "COMPLETED">>, <<"STREAMING", "FALLBACK">>,
               <<"PENDING", "THROWN">>, <<"STREAMING", "THROWN">>}]_vars

\* C18, amended: a turn changes state only from PENDING to STREAMING and
\* from PENDING or STREAMING to one of the ends COMPLETED, FALLBACK and
\* THROWN, which are terminal; a turn that ended COMPLETED or FALLBACK
\* returned a {conversationResponse, messages} pair and no exception,
\* COMPLETED after no error and FALLBACK after an error that is neither a
\* quota nor a security error; a turn ends THROWN only on one of these two.
C18_TurnTransitions ==
    /\ [][TurnState' # TurnState =>
            <<TurnState, TurnState'>> \in
                {<<"PENDING", "STREAMING">>,
                 <<"PENDING", "COMPLETED">>, <<"PENDING", "FALLBACK">>,
                 <<"PENDING", "THROWN">>,
                 <<"STREAMING", "COMPLETED">>, <<"STREAMING", "FALLBACK">>,
                 <<"STREAMING", "THROWN">>}]_vars
    /\ [][(TurnState \in {"COMPLETED", "FALLBACK", "THROWN"}) =>
            (outcome' = outcome /\ cbLog' = cbLog /\ TurnState' = TurnState)]_vars
    /\ [](TurnState \in {"PENDING", "STREAMING"} <=> outcome = NoOutcome)
    /\ [](TurnState \in {"COMPLETED", "FALLBACK"} =>
            /\ outcome.type = "return"
            /\ DOMAIN outcome = {"type", "conversationResponse", "messages"}
            /\ DOMAIN outcome.conversationResponse = {"enhancedUserRequest", "userResponse"}
            /\ raised.class \notin {"RateLimitExceededError", "SecurityError"})
    /\ [](TurnState = "COMPLETED" <=> (outcome # NoOutcome /\ raised = NoError))
    /\ [](TurnState = "THROWN" <=>
            (/\ raised.class \in {"RateLimitExceededError", "SecurityError"}
             /\ outcome = [type |-> "throw", error |-> raised]))

C18_Witness ==
    /\ TurnState = "FALLBACK"
    /\ aiConversationId = 0
    /\ messages = <<>>
    /\ outcome.type = "return"

----------------------------------------------------------------------------
(* Properties of the history and of the correlation ids *)

\* C19: whenever execute() has returned, COMPLETED or FALLBACK, the returned
\* messages are the input pastMessages, message for message with their ids,
\* followed by what the turn appended; and no step of a turn, whether it
\* returns or throws, changes the caller's pastMessages.
C19_HistoryOnlyAppended ==
    /\ [](outcome.type = "return" =>
            /\ Len(outcome.messages) > Len(pastMessages)
            /\ SubSeq(outcome.messages, 1, Len(pastMessages)) = pastMessages)
    /\ [][pastMessages' = pastMessages]_vars

C19_Witness ==
    /\ tpc = "COMPLETED"
    /\ pastMessages # <<>>
    /\ Len(outcome.messages) = Len(pastMessages) + 3
    /\ SubSeq(outcome.messages, 1, Len(pastMessages)) = pastMessages

\* the turn ids generated by the earlier turns of the session
EarlierTurnIds == {pastTurns[k].turnId : k \in 1..Len(pastTurns)} \ {0}

\* C20: every callback call of a turn, streamed fragment or tool
\* notification, carries the turn correlation id, which is generated once
\* in the turn and not changed while the turn runs; the id differs from the
\* id of every message of the history the turn returns and from the turn
\* id of every other turn of the session.
C20_OneTurnIdPerTurn ==
    /\ [](/\ \A i \in 1..Len(cbLog) : cbLog[i].conversationId = aiConversationId
          /\ cbLog # <<>> => aiConversationId # 0
          /\ tpc \in {"STREAMING", "COMPLETED"} => aiConversationId # 0
          /\ (outcome.type = "return" /\ aiConversationId # 0) =>
                \A i \in 1..Len(outcome.messages) :
                    outcome.messages[i].conversationId # aiConversationId
          /\ aiConversationId # 0 => aiConversationId \notin EarlierTurnIds
          /\ \A j, k \in 1..Len(pastTurns) :
                (j # k /\ pastTurns[j].turnId # 0) =>
                    pastTurns[j].turnId # pastTurns[k].turnId)
    /\ [][aiConversationId # 0 =>
            (aiConversationId' = aiConversationId \/ tpc' = "PENDING")]_vars

C20_Witness ==
    /\ tpc = "COMPLETED"
    /\ Len(pastTurns) = 1
    /\ pastTurns[1].turnId # 0
    /\ \E i \in 1..Len(cbLog) : cbLog[i].isStreaming
    /\ \E i \in 1..Len(cbLog) : ~cbLog[i].isStreaming
    /\ Len(outcome.messages) > Len(pastMessages) + 2

----------------------------------------------------------------------------
(* Properties of the history across turns *)

\* the turns of the session that returned so far, the running one included
\* once it has returned
EndedTurns ==
    pastTurns \o (IF outcome.type = "return" THEN <<EndedTurn("none")>> ELSE <<>>)

\* the turns up to the k-th were each started on what the one before returned
SerializedUpTo(k) == \A j \in 1..(k - 1) : EndedTurns[j].next = "returned"

\* the messages a turn added to the snapshot it was given
OwnMessages(t) == {t.returned[i] : i \in (Len(t.pastMessages) + 1)..Len(t.returned)}

MessagesOf(history) == {history[i] : i \in 1..Len(history)}

\* C21: while the turns of a session are serialized, the history a turn
\* returns starts with the history every earlier turn returned, unchanged,
\* and holds for each turn so far its user message and, later, its final or
\* fallback assistant message, the messages of a turn before those of the
\* next; whereas of two turns started on the same pastMessages snapshot
\* each returns the snapshot and its own messages, and none of the other's.
C21_SerializedKeepsAllSnapshotLoses ==
    \A k \in 1..Len(EndedTurns) :
        LET t == EndedTurns[k]
            H == EndedTurns[k].returned IN
          /\ SerializedUpTo(k) =>
                \A j \in 1..k :
                    LET u == EndedTurns[j]
                        up == Len(EndedTurns[j].pastMessages) + 1
                        fp == Len(EndedTurns[j].returned) IN
                      /\ fp <= Len(H)
                      /\ SubSeq(H, 1, fp) = u.returned
                      /\ up < fp
                      /\ H[up].role = "user"
                      /\ H[up].content = StringContent(u.userMessage)
                      /\ H[fp].role = "assistant"
                      /\ IsString(H[fp].content)
                      /\ u.ended = "FALLBACK" =>
                            H[fp].content = StringContent(FALLBACK_USER_RESPONSE)
                      /\ j < k => /\ EndedTurns[j + 1].pastMessages = u.returned
                                  /\ fp < Len(EndedTurns[j + 1].pastMessages) + 1
          /\ (k > 1 /\ EndedTurns[k - 1].next = "snapshot") =>
                LET o == EndedTurns[k - 1] IN
                  /\ t.pastMessages = o.pastMessages
                  /\ SubSeq(H, 1, Len(t.pastMessages)) = t.pastMessages
                  /\ OwnMessages(t) # {}
                  /\ OwnMessages(o) # {}
                  /\ OwnMessages(o) \cap MessagesOf(H) = {}
                  /\ OwnMessages(t) \cap MessagesOf(o.returned) = {}

C21_Witness ==
    /\ Len(pastTurns) = 2
    /\ pastTurns[1].next = "returned"
    /\ pastTurns[1].ended = "FALLBACK"
    /\ pastTurns[2].next = "snapshot"
    /\ pastTurns[2].ended = "COMPLETED"
    /\ tpc = "COMPLETED"
    /\ Len(outcome.messages) > Len(pastMessages) + 2
    /\ OwnMessages(pastTurns[2]) \cap MessagesOf(outcome.messages) = {}

----------------------------------------------------------------------------
(* Properties of the bootstrap controller: one response per request *)

\* C22, as stated: the response is the 200 stream exactly if initialize()
\* was invoked, once, after the quota check passed and the first progress
\* event was written.
C22_StreamIffInitializeInvoked ==
    (response = StreamResponse) <=>
        (/\ Count(calls, "initialize") = 1
         /\ quota = "passed"
         /\ Len(written) >= 1
         /\ IsProgress(written[1])
         /\ FirstCall("write") < FirstCall("initialize"))

\* C22, amended: a handler that has finished has returned one response,
\* which no later step changes; initialize() is invoked at most once, and
\* only after the quota check passed and the first progress event was
\* written; the response is the 200 stream exactly if that call returned
\* its promise; if the call threw, the outer catch has answered with the
\* JSON error although the first event is written; and if the override
\* fetch, the agent-handle lookup or template resolution failed after the
\* quota check passed, the response is the JSON error, initialize() was
\* never invoked and nothing was written to the stream.
C22_OneResponsePerRequest ==
    /\ [](cpc = "done" <=> response # NoResponse)
    /\ [][response # NoResponse => response' = response]_vars
    /\ [](/\ Count(calls, "initialize") <= 1
          /\ Count(calls, "initialize") = 1 =>
                /\ quota = "passed"
                /\ cpc = "done"
                /\ Len(written) >= 1
                /\ IsProgress(written[1])
                /\ FirstCall("write") < FirstCall("initialize"))
    /\ []((response = StreamResponse) <=>
            (Count(calls, "initialize") = 1 /\ initState # "notstarted"))
    /\ []((Count(calls, "initialize") = 1 /\ initState = "notstarted") =>
            /\ response = handleError
            /\ Len(written) = 1
            /\ ~thenRan)
    /\ []((quota = "passed" /\ cpc = "done" /\ Count(calls, "initialize") = 0) =>
            /\ response = handleError
            /\ response.kind = "json"
            /\ written = <<>>
            /\ readable = EmptyReadable
            /\ Count(calls, "write") = 0
            /\ initState = "notstarted")

C22_Witness ==
    /\ cpc = "done"
    /\ quota = "passed"
    /\ Count(calls, "initialize") = 1
    /\ initState = "notstarted"
    /\ response = handleError
    /\ Len(written) = 1

====
